---------------------------- MODULE Spec2Model ----------------------------
(***************************************************************************)
(* ConservativeTradingPipeline (src/conservative_trading.py) together with *)
(* the process-wide TradingConfig (src/config.py).                         *)
(*                                                                         *)
(* Units.  Python floats are modelled as exact decimals:                   *)
(*   - money (balance, notional, PnL, price, ATR, stop, target) is an      *)
(*     integer number of hundredths, so 10 USDT is 1000;                   *)
(*   - confidence in [0,1] is an integer number of hundredths (0.65 = 65); *)
(*   - a base-currency size is an integer number of ten-thousandths.       *)
(* Binary rounding of floats is outside the model.                         *)
(*                                                                         *)
(* One action is one collaborator call of a cycle together with everything *)
(* the handler does with its answer up to the next collaborator call.      *)
(* SmartHighLeverageRiskManager, ConservativeQualityFilter and             *)
(* ConservativeGrokFilter live in conservative_core, which is not part of  *)
(* the sources at hand; they are modelled from their documented contract.  *)
(***************************************************************************)
EXTENDS Integers, Sequences, FiniteSets, TLC

VARIABLES
    config,              \* CONFIG, the TradingConfig singleton
    risk,                \* self.risk_manager: the risk ledger's fields
    symbol_trade_count,  \* self.symbol_trade_count (absent key = 0)
    executed_trades,     \* self.executed_trades
    last_trade_day,      \* self.last_trade_day
    today,               \* datetime.now().date(), as a day number
    pc,                  \* per caller: position inside process_trade_decision
    loc,                 \* per caller: the locals of the running cycle
    outcome,             \* per caller: the dict returned by the cycle
    calls,               \* per caller: collaborator calls made so far in the cycle
    pre,                 \* per caller: bookkeeping as it was when the cycle began
    io,                  \* per caller: arguments and answers of the cycle's collaborator calls
    orders_placed,       \* create_order calls that returned a handle today
    host_updates,        \* results the host booked on the ledger itself
    reset_calls,         \* reset_daily_stats calls since the date last changed (__init__
                         \* counts as one; two stands for two or more)
    reset_mark,          \* length of the trade log at the first of them
    reset_last,          \* length of the trade log at the latest of them
    lock                 \* the host runs the cycles under one mutual-exclusion boundary

vars == <<config, risk, symbol_trade_count, executed_trades, last_trade_day,
          today, pc, loc, outcome, calls, pre, io, orders_placed,
          host_updates, reset_calls, reset_mark, reset_last, lock>>

-----------------------------------------------------------------------------
(* Bounds of the model *)

\* ATR answers of the analysis engine are 0, 2.00, ..., 2.00 * MaxATRSteps
MaxATRSteps == 1

\* realized results the host may book directly on the ledger (SpecHost)
MaxHostUpdates == 2

\* the calendar runs from day 1 to day MaxDay (SpecDays)
MaxDay == 2

Procs == {1, 2}

Symbols == {"BTC/USDT:USDT", "ETH/USDT:USDT"}

EntryActions == {"BUY", "SELL", "HOLD"}

Confidences == {50, 90}

ADXValues == {10, 30}

Prices == {10000}

ATRValues == {200 * k : k \in 0..MaxATRSteps}

TrendLabels == {"BULLISH"}

\* total_balance answers of get_account_info: 0, 40.00
Balances == {0, 4000}

\* realized PnL the host may book: -2.00 (5% of 40.00) and -1.00
HostPnLs == {-200, -100}

-----------------------------------------------------------------------------
(* TradingConfig *)

TradingConfig ==
    [LEVERAGE               |-> 8,
     POSITION_SIZE_PERCENT  |-> 25,
     MAX_DAILY_LOSS_PERCENT |-> 5,
     DAILY_TRADE_LIMIT      |-> 3,
     MIN_CONFIDENCE         |-> 65,
     MIN_ADX                |-> 20]

-----------------------------------------------------------------------------
(* Values *)

NoTechnicalData ==
    [entry     |-> [action |-> "NONE", confidence |-> 0],
     execution |-> [current_price |-> 0],
     risk      |-> [atr |-> 0],
     adx       |-> 0]

TechnicalSnapshots ==
    [entry     : [action : EntryActions, confidence : Confidences],
     execution : [current_price : Prices],
     risk      : [atr : ATRValues],
     adx       : ADXValues]

\* what the analysis engine answers; while the cycles run without the lock
\* its answers are kept to one snapshot that the gates can admit
AnalysisAnswers ==
    IF lock
    THEN TechnicalSnapshots
    ELSE {t \in TechnicalSnapshots :
            /\ t.entry = [action |-> "BUY", confidence |-> 90]
            /\ t.adx = 30
            /\ t.risk.atr = 200}

NoLocals ==
    [symbol             |-> "",
     technical_data     |-> NoTechnicalData,
     primary_trend      |-> [trend |-> ""],
     position_size_usdt |-> 0]

NoTradeInfo ==
    [symbol |-> "", side |-> "", size |-> 0, size_usdt |-> 0, entry_price |-> 0,
     stop_loss |-> 0, take_profit |-> 0, leverage |-> 0, timestamp |-> 0,
     confidence |-> 0, trend |-> ""]

NoTradeResult ==
    [executed |-> FALSE, trade |-> NoTradeInfo, pnl |-> 0, position_size_usdt |-> 0]

NoOutcome ==
    [action |-> "NONE", reason |-> <<"", "">>, confidence |-> 0, trade |-> NoTradeResult]

Hold(reason, confidence) ==
    [action |-> "HOLD", reason |-> reason, confidence |-> confidence,
     trade |-> NoTradeResult]

Executed(trade_result, confidence) ==
    [action |-> "EXECUTED", reason |-> <<"EXECUTED", "quality trade executed">>,
     confidence |-> confidence, trade |-> trade_result]

\* what a cycle must leave alone when it does not trade
Bookkeeping ==
    [risk               |-> risk,
     symbol_trade_count |-> symbol_trade_count,
     executed_trades    |-> executed_trades,
     today              |-> today,
     last_trade_day     |-> last_trade_day]

-----------------------------------------------------------------------------
(* SmartHighLeverageRiskManager: the risk ledger *)

LimitReason == <<"RISK", "daily trade limit reached">>

LossReason == <<"RISK", "daily loss limit reached">>

can_trade_today(r, cfg) ==
    IF r.daily_trades >= cfg.DAILY_TRADE_LIMIT
    THEN <<FALSE, LimitReason>>
    ELSE IF r.daily_pnl * 100 <= -(cfg.MAX_DAILY_LOSS_PERCENT * r.account_balance)
         THEN <<FALSE, LossReason>>
         ELSE <<TRUE, <<"", "">>>>

set_account_balance(r, value) == [r EXCEPT !.account_balance = value]

update_trade_result(r, pnl) ==
    [r EXCEPT !.daily_pnl = @ + pnl,
              !.daily_trades = @ + 1,
              !.consecutive_losses = IF pnl < 0 THEN @ + 1 ELSE 0]

\* zeroes the daily trade count and the daily PnL
reset_daily_stats(r) == [r EXCEPT !.daily_trades = 0, !.daily_pnl = 0]

\* base notional = balance * POSITION_SIZE_PERCENT / 100; the multiplier for
\* confidence and quality never exceeds 1 and is 1 when both are maximal.
calculate_position_size(r, cfg, confidence, quality_score) ==
    LET base == (r.account_balance * cfg.POSITION_SIZE_PERCENT) \div 100
    IN  IF confidence = 100 /\ quality_score = 100
        THEN {base}
        ELSE {base, (base * 8) \div 10}

-----------------------------------------------------------------------------
(* ConservativeQualityFilter and the social guard's answers *)

QualityRejections(cfg, technical_data, entry_signal) ==
    (IF entry_signal.confidence < cfg.MIN_CONFIDENCE
       THEN {<<"QUALITY", "confidence below minimum">>} ELSE {})
    \cup (IF technical_data.adx < cfg.MIN_ADX
       THEN {<<"QUALITY", "trend strength below minimum">>} ELSE {})
    \cup (IF entry_signal.action = "HOLD"
       THEN {<<"QUALITY", "no entry signal">>} ELSE {})

\* the answers should_enter_trade may give
should_enter_trade(cfg, technical_data, primary_trend, entry_signal) ==
    LET must == QualityRejections(cfg, technical_data, entry_signal)
    IN  IF must # {}
        THEN {<<FALSE, r>> : r \in must}
        ELSE {<<TRUE, <<"", "">>>>, <<FALSE, <<"QUALITY", "setup not clean">>>>}

SocialReason == <<"SOCIAL", "sentiment against the trade">>

-----------------------------------------------------------------------------
(* execute_conservative_trade: the arithmetic *)

\* `position_size_usdt < 10`, in hundredths
MIN_POSITION_SIZE_USDT == 1000

Side(action) == IF action = "BUY" THEN "buy" ELSE "sell"

\* atr * 1.5 and atr * 3.0
StopDistance(atr) == (atr * 15) \div 10

TargetDistance(atr) == (atr * 30) \div 10

\* StopLoss with the sell side not mirrored
StopLoss_NotMirrored(action, current_price, atr) ==
    current_price - StopDistance(atr)

StopLoss(action, current_price, atr) ==
    IF action = "BUY"
    THEN current_price - StopDistance(atr)
    ELSE current_price + StopDistance(atr)

TakeProfit(action, current_price, atr) ==
    IF action = "BUY"
    THEN current_price + TargetDistance(atr)
    ELSE current_price - TargetDistance(atr)

\* position_size_usdt / current_price, in ten-thousandths of a base unit
PositionSize(position_size_usdt, current_price) ==
    (position_size_usdt * 10000) \div current_price

\* EstimatedPnl with the sign of a loss
EstimatedPnl_Negative(position_size_usdt) == 0 - ((position_size_usdt * 2) \div 100)

\* position_size_usdt * 0.02
EstimatedPnl(position_size_usdt) == (position_size_usdt * 2) \div 100

TooSmall(position_size_usdt) == position_size_usdt < MIN_POSITION_SIZE_USDT

TooSmallReason(position_size_usdt) ==
    <<"POSITION_TOO_SMALL", ToString(position_size_usdt)>>

OrderErrorReason == <<"ORDER_ERROR", "order creation failed">>

NoOrderRequest ==
    [symbol |-> "", type |-> "", side |-> "", size |-> 0, size_usdt |-> 0,
     price |-> 0, atr |-> 0, take_profit |-> 0, stop_loss |-> 0]

\* nothing asked, nothing answered; an answer is kept as a tuple, <<>> = none
NoIO ==
    [should_enter_trade      |-> <<>>,
     should_avoid_trade      |-> <<>>,
     get_account_info        |-> <<>>,
     calculate_position_size |-> <<>>,
     set_leverage            |-> <<>>,
     create_order            |-> NoOrderRequest,
     order                   |-> "",
     raised                  |-> ""]

\* the arguments of trader.create_order; size_usdt, price and atr are the
\* locals the arguments were computed from
OrderRequest(l) ==
    LET action == l.technical_data.entry.action
        current_price == l.technical_data.execution.current_price
        atr == l.technical_data.risk.atr
    IN  [symbol      |-> l.symbol,
         type        |-> "market",
         side        |-> Side(action),
         size        |-> PositionSize(l.position_size_usdt, current_price),
         size_usdt   |-> l.position_size_usdt,
         price       |-> current_price,
         atr         |-> atr,
         take_profit |-> TakeProfit(action, current_price, atr),
         stop_loss   |-> StopLoss(action, current_price, atr)]

\* the trade_info dict
TradeInfo(l, cfg, now) ==
    LET entry_signal == l.technical_data.entry
        current_price == l.technical_data.execution.current_price
        atr == l.technical_data.risk.atr
    IN  [symbol      |-> l.symbol,
         side        |-> Side(entry_signal.action),
         size        |-> PositionSize(l.position_size_usdt, current_price),
         size_usdt   |-> l.position_size_usdt,
         entry_price |-> current_price,
         stop_loss   |-> StopLoss(entry_signal.action, current_price, atr),
         take_profit |-> TakeProfit(entry_signal.action, current_price, atr),
         leverage    |-> cfg.LEVERAGE,
         timestamp   |-> now,
         confidence  |-> entry_signal.confidence,
         trend       |-> l.primary_trend.trend]

-----------------------------------------------------------------------------
(* Initial state: ConservativeTradingPipeline.__init__ *)

\* the ledger right after construction; the cached balance is whatever the
\* host configured the ledger with
InitialLedgers ==
    [daily_trades : {0}, daily_pnl : {0}, consecutive_losses : {0},
     account_balance : Balances]

NoBookkeeping ==
    [risk |-> [daily_trades |-> 0, daily_pnl |-> 0, consecutive_losses |-> 0,
               account_balance |-> 0],
     symbol_trade_count |-> [s \in Symbols |-> 0], executed_trades |-> <<>>,
     today |-> 0, last_trade_day |-> 0]

Init ==
    /\ config = TradingConfig
    /\ risk \in InitialLedgers
    /\ symbol_trade_count = [s \in Symbols |-> 0]
    /\ executed_trades = <<>>
    /\ today = 1
    /\ last_trade_day = today
    /\ pc = [p \in Procs |-> "idle"]
    /\ loc = [p \in Procs |-> NoLocals]
    /\ outcome = [p \in Procs |-> NoOutcome]
    /\ calls = [p \in Procs |-> <<>>]
    /\ pre = [p \in Procs |-> NoBookkeeping]
    /\ io = [p \in Procs |-> NoIO]
    /\ orders_placed = 0
    /\ host_updates = 0
    /\ reset_calls = 1
    /\ reset_mark = 0
    /\ reset_last = 0
    /\ lock = TRUE

-----------------------------------------------------------------------------
(* process_trade_decision *)

pipeline == <<config, risk, symbol_trade_count, executed_trades, last_trade_day,
              today, orders_placed, host_updates, reset_calls, reset_mark, reset_last, lock>>

\* the cycle's call log grows by one collaborator call
Invoke(p, name) == calls' = [calls EXCEPT ![p] = Append(@, name)]

\* `return result` of process_trade_decision
ReturnOutcome(p, result) ==
    /\ outcome' = [outcome EXCEPT ![p] = result]
    /\ pc' = [pc EXCEPT ![p] = "done"]

\* the outer `except Exception as e`
PipelineError(p, what) == ReturnOutcome(p, Hold(<<"PIPELINE_ERROR", what>>, 0))

\* the else branch of `if trade_result['executed']`
ExecutionFailed(p, reason) ==
    ReturnOutcome(p, Hold(reason, loc[p].technical_data.entry.confidence))

\* ExecutionError without the inner handler: the outer one catches
ExecutionError_OuterHandler(p, what) == PipelineError(p, what)

\* the inner `except Exception as e` of execute_conservative_trade
ExecutionError(p, what) == ExecutionFailed(p, <<"EXECUTION_ERROR", what>>)

\* no boundary: a cycle may begin whatever the other callers are doing
Serialized_NoBoundary(p) == pc[p] = "idle"

\* no other cycle is between its call and the delivery of its result
Serialized(p) == \A q \in Procs \ {p} : pc[q] = "idle"

\* RiskCheck with the early return left out
RiskCheck_NoEarlyReturn(p, symbol) ==
    /\ pc[p] = "idle"
    /\ calls' = [calls EXCEPT ![p] = <<"can_trade_today">>]
    /\ pre' = [pre EXCEPT ![p] = Bookkeeping]
    /\ loc' = [loc EXCEPT ![p] = [NoLocals EXCEPT !.symbol = symbol]]
    /\ pc' = [pc EXCEPT ![p] = "analysis"]
    /\ UNCHANGED <<outcome, pipeline, io>>

\* RiskCheck with the analysis fetched before the ledger is asked
RiskCheck_AnalysisFirst(p, symbol) ==
    /\ pc[p] = "idle"
    /\ calls' = [calls EXCEPT ![p] =
                    <<"get_multi_timeframe_analysis", "can_trade_today">>]
    /\ pre' = [pre EXCEPT ![p] = Bookkeeping]
    /\ loc' = [loc EXCEPT ![p] = [NoLocals EXCEPT !.symbol = symbol]]
    /\ LET answer == can_trade_today(risk, config)
       IN  IF ~answer[1]
           THEN ReturnOutcome(p, Hold(answer[2], 0))
           ELSE /\ pc' = [pc EXCEPT ![p] = "analysis"]
                /\ UNCHANGED outcome
    /\ UNCHANGED <<pipeline, io>>

\* the caller invokes process_trade_decision(symbol); the risk check runs first
RiskCheck(p, symbol) ==
    /\ pc[p] = "idle"
    /\ calls' = [calls EXCEPT ![p] = <<"can_trade_today">>]
    /\ pre' = [pre EXCEPT ![p] = Bookkeeping]
    /\ loc' = [loc EXCEPT ![p] = [NoLocals EXCEPT !.symbol = symbol]]
    /\ LET answer == can_trade_today(risk, config)
       IN  IF ~answer[1]
           THEN ReturnOutcome(p, Hold(answer[2], 0))
           ELSE /\ pc' = [pc EXCEPT ![p] = "analysis"]
                /\ UNCHANGED outcome
    /\ UNCHANGED <<pipeline, io>>

\* technical_analyzer.get_multi_timeframe_analysis
Analysis(p) ==
    /\ pc[p] = "analysis"
    /\ Invoke(p, "get_multi_timeframe_analysis")
    /\ \/ /\ io' = [io EXCEPT ![p].raised = "get_multi_timeframe_analysis"]
          /\ PipelineError(p, "get_multi_timeframe_analysis raised")
          /\ UNCHANGED loc
       \/ \E technical_data \in AnalysisAnswers :
            /\ loc' = [loc EXCEPT ![p].technical_data = technical_data]
            /\ pc' = [pc EXCEPT ![p] = "trend"]
            /\ UNCHANGED <<outcome, io>>
    /\ UNCHANGED <<pipeline, pre>>

\* grok_filter.analyze_primary_trend
PrimaryTrend(p) ==
    /\ pc[p] = "trend"
    /\ Invoke(p, "analyze_primary_trend")
    /\ \/ /\ io' = [io EXCEPT ![p].raised = "analyze_primary_trend"]
          /\ PipelineError(p, "analyze_primary_trend raised")
          /\ UNCHANGED loc
       \/ \E label \in TrendLabels :
            /\ loc' = [loc EXCEPT ![p].primary_trend = [trend |-> label]]
            /\ pc' = [pc EXCEPT ![p] = "quality"]
            /\ UNCHANGED <<outcome, io>>
    /\ UNCHANGED <<pipeline, pre>>

\* QualityCheck answering a rejection with confidence 0
QualityCheck_ZeroConfidence(p) ==
    /\ pc[p] = "quality"
    /\ Invoke(p, "should_enter_trade")
    /\ LET entry_signal == loc[p].technical_data.entry
       IN  \E answer \in should_enter_trade(config, loc[p].technical_data,
                                            loc[p].primary_trend, entry_signal) :
             /\ io' = [io EXCEPT ![p].should_enter_trade = answer]
             /\ IF ~answer[1]
                THEN ReturnOutcome(p, Hold(answer[2], 0))
                ELSE /\ pc' = [pc EXCEPT ![p] = "sentiment"]
                     /\ UNCHANGED outcome
    /\ UNCHANGED <<pipeline, pre, loc>>

\* quality_filter.should_enter_trade and the `if not should_enter`
QualityCheck(p) ==
    /\ pc[p] = "quality"
    /\ Invoke(p, "should_enter_trade")
    /\ LET entry_signal == loc[p].technical_data.entry
       IN  \E answer \in should_enter_trade(config, loc[p].technical_data,
                                            loc[p].primary_trend, entry_signal) :
             /\ io' = [io EXCEPT ![p].should_enter_trade = answer]
             /\ IF ~answer[1]
                THEN ReturnOutcome(p, Hold(answer[2], entry_signal.confidence))
                ELSE /\ pc' = [pc EXCEPT ![p] = "sentiment"]
                     /\ UNCHANGED outcome
    /\ UNCHANGED <<pipeline, pre, loc>>

\* SentimentCheck going on to execution whatever the guard answers
SentimentCheck_VetoIgnored(p) ==
    /\ pc[p] = "sentiment"
    /\ Invoke(p, "should_avoid_trade")
    /\ \/ /\ io' = [io EXCEPT ![p].raised = "should_avoid_trade"]
          /\ PipelineError(p, "should_avoid_trade raised")
       \/ \E answer \in {<<TRUE, SocialReason>>, <<FALSE, <<"", "">>>>} :
            /\ io' = [io EXCEPT ![p].should_avoid_trade = answer]
            /\ pc' = [pc EXCEPT ![p] = "account"]
            /\ UNCHANGED outcome
    /\ UNCHANGED <<pipeline, pre, loc>>

\* social_guard.should_avoid_trade and the `if should_avoid`
SentimentCheck(p) ==
    /\ pc[p] = "sentiment"
    /\ Invoke(p, "should_avoid_trade")
    /\ LET entry_signal == loc[p].technical_data.entry
       IN  \/ /\ io' = [io EXCEPT ![p].raised = "should_avoid_trade"]
              /\ PipelineError(p, "should_avoid_trade raised")
           \/ \E answer \in {<<TRUE, SocialReason>>, <<FALSE, <<"", "">>>>} :
                /\ io' = [io EXCEPT ![p].should_avoid_trade = answer]
                /\ IF answer[1]
                   THEN ReturnOutcome(p, Hold(answer[2], entry_signal.confidence))
                   ELSE /\ pc' = [pc EXCEPT ![p] = "account"]
                        /\ UNCHANGED outcome
    /\ UNCHANGED <<pipeline, pre, loc>>

-----------------------------------------------------------------------------
(* execute_conservative_trade and record_trade_execution *)

\* AccountInfo that sizes from the cached balance and never overwrites it
AccountInfo_NoRefresh(p) ==
    /\ pc[p] = "account"
    /\ Invoke(p, "get_account_info")
    /\ \/ /\ io' = [io EXCEPT ![p].raised = "get_account_info"]
          /\ ExecutionError(p, "get_account_info raised")
          /\ UNCHANGED loc
       \/ \E total_balance \in Balances :
            /\ \E position_size_usdt \in
                    calculate_position_size(risk, config,
                        loc[p].technical_data.entry.confidence, 100) :
                 /\ loc' = [loc EXCEPT ![p].position_size_usdt = position_size_usdt]
                 /\ io' = [io EXCEPT ![p].get_account_info = <<total_balance>>,
                                     ![p].calculate_position_size =
                                         <<position_size_usdt>>]
            /\ pc' = [pc EXCEPT ![p] = "leverage"]
            /\ UNCHANGED outcome
    /\ UNCHANGED <<config, risk, symbol_trade_count, executed_trades,
                   last_trade_day, today, orders_placed, host_updates,
                   reset_calls, reset_mark, reset_last, lock, pre>>

\* trader.get_account_info, then set_account_balance and calculate_position_size
AccountInfo(p) ==
    /\ pc[p] = "account"
    /\ Invoke(p, "get_account_info")
    /\ \/ /\ io' = [io EXCEPT ![p].raised = "get_account_info"]
          /\ ExecutionError(p, "get_account_info raised")
          /\ UNCHANGED <<risk, loc>>
       \/ \E total_balance \in Balances :
            /\ risk' = set_account_balance(risk, total_balance)
            /\ \E position_size_usdt \in
                    calculate_position_size(risk', config,
                        loc[p].technical_data.entry.confidence, 100) :
                 /\ loc' = [loc EXCEPT ![p].position_size_usdt = position_size_usdt]
                 /\ io' = [io EXCEPT ![p].get_account_info = <<total_balance>>,
                                     ![p].calculate_position_size =
                                         <<position_size_usdt>>]
            /\ pc' = [pc EXCEPT ![p] = "leverage"]
            /\ UNCHANGED outcome
    /\ UNCHANGED <<config, symbol_trade_count, executed_trades, last_trade_day,
                   today, orders_placed, host_updates, reset_calls, reset_mark,
                   reset_last, lock, pre>>

\* MinimumSizeCheck that also refuses a zero ATR
MinimumSizeCheck_GuardsZeroATR(p) ==
    IF TooSmall(loc[p].position_size_usdt) \/ loc[p].technical_data.risk.atr = 0
    THEN ExecutionFailed(p, TooSmallReason(loc[p].position_size_usdt))
    ELSE /\ pc' = [pc EXCEPT ![p] = "order"]
         /\ UNCHANGED outcome

\* the `if position_size_usdt < 10` that follows set_leverage and the stop/target
MinimumSizeCheck(p) ==
    IF TooSmall(loc[p].position_size_usdt)
    THEN ExecutionFailed(p, TooSmallReason(loc[p].position_size_usdt))
    ELSE /\ pc' = [pc EXCEPT ![p] = "order"]
         /\ UNCHANGED outcome

\* trader.set_leverage, the stop and target, and the minimum-size check
SetLeverage(p) ==
    /\ pc[p] = "leverage"
    /\ Invoke(p, "set_leverage")
    /\ \/ /\ io' = [io EXCEPT ![p].set_leverage = <<loc[p].symbol, config.LEVERAGE>>,
                              ![p].raised = "set_leverage"]
          /\ ExecutionError(p, "set_leverage raised")
       \/ /\ io' = [io EXCEPT ![p].set_leverage = <<loc[p].symbol, config.LEVERAGE>>]
          /\ MinimumSizeCheck(p)
    /\ UNCHANGED <<pipeline, pre, loc>>

\* self.record_trade_execution(symbol, pnl)
record_trade_execution(symbol, pnl) ==
    /\ risk' = update_trade_result(risk, pnl)
    /\ symbol_trade_count' = [symbol_trade_count EXCEPT ![symbol] = @ + 1]

\* create_order raised: the inner handler reports executed=False
OrderRaised(p) ==
    /\ io' = [io EXCEPT ![p].create_order = OrderRequest(loc[p]),
                        ![p].raised = "create_order"]
    /\ Invoke(p, "create_order")
    /\ ExecutionError(p, "create_order raised")
    /\ UNCHANGED <<risk, symbol_trade_count, executed_trades, orders_placed>>

\* OrderRejected with the trade recorded all the same
OrderRejected_StillRecorded(p) ==
    /\ io' = [io EXCEPT ![p].create_order = OrderRequest(loc[p]),
                        ![p].order = "none"]
    /\ calls' = [calls EXCEPT ![p] = @ \o <<"create_order", "record_trade_execution">>]
    /\ record_trade_execution(loc[p].symbol, 0)
    /\ ExecutionFailed(p, OrderErrorReason)
    /\ UNCHANGED <<executed_trades, orders_placed>>

\* create_order returned no handle: the else branch of `if order`
OrderRejected(p) ==
    /\ io' = [io EXCEPT ![p].create_order = OrderRequest(loc[p]),
                        ![p].order = "none"]
    /\ Invoke(p, "create_order")
    /\ ExecutionFailed(p, OrderErrorReason)
    /\ UNCHANGED <<risk, symbol_trade_count, executed_trades, orders_placed>>

\* OrderAccepted with record_trade_execution left out
OrderAccepted_NotRecorded(p) ==
    LET trade_info == TradeInfo(loc[p], config, today)
        trade_result == [executed |-> TRUE, trade |-> trade_info,
                         pnl |-> EstimatedPnl(loc[p].position_size_usdt),
                         position_size_usdt |-> loc[p].position_size_usdt]
    IN  /\ io' = [io EXCEPT ![p].create_order = OrderRequest(loc[p]),
                            ![p].order = "handle"]
        /\ Invoke(p, "create_order")
        /\ orders_placed' = orders_placed + 1
        /\ executed_trades' = Append(executed_trades, trade_info)
        /\ UNCHANGED <<risk, symbol_trade_count>>
        /\ ReturnOutcome(p, Executed(trade_result,
                                     loc[p].technical_data.entry.confidence))

\* OrderAccepted in which reading primary_trend['trend'] raises after the order
\* was placed: the inner handler reports the failure and nothing is recorded
OrderAccepted_TrendLabelMissing(p) ==
    /\ io' = [io EXCEPT ![p].create_order = OrderRequest(loc[p]),
                        ![p].order = "handle"]
    /\ Invoke(p, "create_order")
    /\ orders_placed' = orders_placed + 1
    /\ ExecutionError(p, "trend label missing")
    /\ UNCHANGED <<risk, symbol_trade_count, executed_trades>>

\* create_order returned a handle: the trade is logged, reported executed,
\* recorded by process_trade_decision and returned as EXECUTED
OrderAccepted(p) ==
    LET trade_info == TradeInfo(loc[p], config, today)
        trade_result == [executed |-> TRUE, trade |-> trade_info,
                         pnl |-> EstimatedPnl(loc[p].position_size_usdt),
                         position_size_usdt |-> loc[p].position_size_usdt]
    IN  /\ io' = [io EXCEPT ![p].create_order = OrderRequest(loc[p]),
                            ![p].order = "handle"]
        /\ calls' = [calls EXCEPT ![p] = @ \o <<"create_order", "record_trade_execution">>]
        /\ orders_placed' = orders_placed + 1
        /\ executed_trades' = Append(executed_trades, trade_info)
        /\ record_trade_execution(loc[p].symbol, trade_result.pnl)
        /\ ReturnOutcome(p, Executed(trade_result,
                                     loc[p].technical_data.entry.confidence))

\* trader.create_order and everything after it, up to the cycle's return
CreateOrder(p) ==
    /\ pc[p] = "order"
    /\ \/ OrderRaised(p)
       \/ OrderRejected(p)
       \/ OrderAccepted(p)
    /\ UNCHANGED <<config, last_trade_day, today, host_updates, reset_calls,
                   reset_mark, reset_last, lock, pre, loc>>

\* the caller has taken the returned dict
Return(p) ==
    /\ pc[p] = "done"
    /\ pc' = [pc EXCEPT ![p] = "idle"]
    /\ outcome' = [outcome EXCEPT ![p] = NoOutcome]
    /\ loc' = [loc EXCEPT ![p] = NoLocals]
    /\ calls' = [calls EXCEPT ![p] = <<>>]
    /\ pre' = [pre EXCEPT ![p] = NoBookkeeping]
    /\ io' = [io EXCEPT ![p] = NoIO]
    /\ UNCHANGED pipeline

-----------------------------------------------------------------------------
(* Cycles one at a time: the caller's evaluation loop *)

Call(p) == \E symbol \in Symbols : Serialized(p) /\ RiskCheck(p, symbol)

Next ==
    \E p \in Procs :
        \/ Call(p)
        \/ Analysis(p)
        \/ PrimaryTrend(p)
        \/ QualityCheck(p)
        \/ SentimentCheck(p)
        \/ AccountInfo(p)
        \/ SetLeverage(p)
        \/ CreateOrder(p)
        \/ Return(p)

Spec == Init /\ [][Next]_vars

-----------------------------------------------------------------------------
(* The host also books realized results on the ledger between cycles *)

\* risk_manager.update_trade_result(pnl), called by the host with a realized loss
HostUpdateTradeResult ==
    /\ \A p \in Procs : pc[p] = "idle"
    /\ host_updates < MaxHostUpdates
    /\ host_updates' = host_updates + 1
    /\ \E pnl \in HostPnLs : risk' = update_trade_result(risk, pnl)
    /\ UNCHANGED <<config, symbol_trade_count, executed_trades, last_trade_day,
                   today, orders_placed, reset_calls, reset_mark, reset_last, lock,
                   pc, loc, outcome, calls, pre, io>>

NextHost == Next \/ HostUpdateTradeResult

SpecHost == Init /\ [][NextHost]_vars

-----------------------------------------------------------------------------
(* The calendar and reset_daily_stats *)

\* midnight: datetime.now().date() moves on
AdvanceDay ==
    /\ today < MaxDay
    /\ today' = today + 1
    /\ reset_calls' = 0
    /\ orders_placed' = 0
    /\ UNCHANGED <<config, risk, symbol_trade_count, executed_trades,
                   last_trade_day, host_updates, reset_mark, reset_last, lock,
                   pc, loc, outcome, calls, pre, io>>

\* ResetDailyStats without the date comparison
ResetDailyStats_Unconditional ==
    /\ \A p \in Procs : pc[p] = "idle"
    /\ risk' = reset_daily_stats(risk)
    /\ symbol_trade_count' = [s \in Symbols |-> 0]
    /\ last_trade_day' = today
    /\ reset_calls' = IF reset_calls = 0 THEN 1 ELSE 2
    /\ reset_mark' = IF reset_calls = 0 THEN Len(executed_trades) ELSE reset_mark
    /\ reset_last' = Len(executed_trades)
    /\ UNCHANGED <<config, executed_trades, today, orders_placed, host_updates,
                   lock, pc, loc, outcome, calls, pre, io>>

\* ResetDailyStats that also empties the trade log
ResetDailyStats_ClearsLog ==
    /\ \A p \in Procs : pc[p] = "idle"
    /\ IF today # last_trade_day
       THEN /\ risk' = reset_daily_stats(risk)
            /\ symbol_trade_count' = [s \in Symbols |-> 0]
            /\ last_trade_day' = today
            /\ executed_trades' = <<>>
       ELSE UNCHANGED <<risk, symbol_trade_count, last_trade_day, executed_trades>>
    /\ reset_calls' = IF reset_calls = 0 THEN 1 ELSE 2
    /\ reset_mark' = IF reset_calls = 0 THEN Len(executed_trades') ELSE reset_mark
    /\ reset_last' = Len(executed_trades')
    /\ UNCHANGED <<config, today, orders_placed, host_updates,
                   lock, pc, loc, outcome, calls, pre, io>>

\* ResetDailyStats that leaves the per-symbol counters as they are
ResetDailyStats_KeepsSymbolCounts ==
    /\ \A p \in Procs : pc[p] = "idle"
    /\ IF today # last_trade_day
       THEN /\ risk' = reset_daily_stats(risk)
            /\ last_trade_day' = today
       ELSE UNCHANGED <<risk, last_trade_day>>
    /\ reset_calls' = IF reset_calls = 0 THEN 1 ELSE 2
    /\ reset_mark' = IF reset_calls = 0 THEN Len(executed_trades) ELSE reset_mark
    /\ reset_last' = Len(executed_trades)
    /\ UNCHANGED <<config, symbol_trade_count, executed_trades, today,
                   orders_placed, host_updates, lock, pc, loc, outcome, calls,
                   pre, io>>

\* the host calls pipeline.reset_daily_stats() between two cycles
ResetDailyStats ==
    /\ \A p \in Procs : pc[p] = "idle"
    /\ IF today # last_trade_day
       THEN /\ risk' = reset_daily_stats(risk)
            /\ symbol_trade_count' = [s \in Symbols |-> 0]
            /\ last_trade_day' = today
       ELSE UNCHANGED <<risk, symbol_trade_count, last_trade_day>>
    /\ reset_calls' = IF reset_calls = 0 THEN 1 ELSE 2
    /\ reset_mark' = IF reset_calls = 0 THEN Len(executed_trades) ELSE reset_mark
    /\ reset_last' = Len(executed_trades)
    /\ UNCHANGED <<config, executed_trades, today, orders_placed, host_updates,
                   lock, pc, loc, outcome, calls, pre, io>>

NextDays == Next \/ AdvanceDay \/ ResetDailyStats

\* the pipeline configured for one trade a day, as update_config allows
\* before the pipeline is built
InitOneTradeADay ==
    /\ config = [TradingConfig EXCEPT !.DAILY_TRADE_LIMIT = 1]
    /\ risk \in InitialLedgers
    /\ symbol_trade_count = [s \in Symbols |-> 0]
    /\ executed_trades = <<>>
    /\ today = 1
    /\ last_trade_day = today
    /\ pc = [p \in Procs |-> "idle"]
    /\ loc = [p \in Procs |-> NoLocals]
    /\ outcome = [p \in Procs |-> NoOutcome]
    /\ calls = [p \in Procs |-> <<>>]
    /\ pre = [p \in Procs |-> NoBookkeeping]
    /\ io = [p \in Procs |-> NoIO]
    /\ orders_placed = 0
    /\ host_updates = 0
    /\ reset_calls = 1
    /\ reset_mark = 0
    /\ reset_last = 0
    /\ lock = TRUE

SpecDays == InitOneTradeADay /\ [][NextDays]_vars

-----------------------------------------------------------------------------
(* Two callers, with or without a mutual-exclusion boundary around the cycle *)

\* a caller enters process_trade_decision while another cycle may be under way
CallUnlocked(p) ==
    /\ ~lock
    /\ \E symbol \in Symbols : RiskCheck(p, symbol)

NextLock == Next \/ \E p \in Procs : CallUnlocked(p)

\* the host either puts every cycle under one lock or does not
InitLock ==
    /\ config = TradingConfig
    /\ risk \in InitialLedgers
    /\ symbol_trade_count = [s \in Symbols |-> 0]
    /\ executed_trades = <<>>
    /\ today = 1
    /\ last_trade_day = today
    /\ pc = [p \in Procs |-> "idle"]
    /\ loc = [p \in Procs |-> NoLocals]
    /\ outcome = [p \in Procs |-> NoOutcome]
    /\ calls = [p \in Procs |-> <<>>]
    /\ pre = [p \in Procs |-> NoBookkeeping]
    /\ io = [p \in Procs |-> NoIO]
    /\ orders_placed = 0
    /\ host_updates = 0
    /\ reset_calls = 1
    /\ reset_mark = 0
    /\ reset_last = 0
    /\ lock \in BOOLEAN

SpecLock == InitLock /\ [][NextLock]_vars

-----------------------------------------------------------------------------
(* TradingConfig.update_config *)

\* the longest keyword list passed to update_config
MaxKwargs == 2

\* names of attributes that TradingConfig.__init__ creates
RecognizedOptions ==
    {"LEVERAGE", "POSITION_SIZE_PERCENT", "MAX_DAILY_LOSS_PERCENT",
     "DAILY_TRADE_LIMIT"}

\* keyword names a caller may pass: the recognized ones and one that is not
\* an attribute of the object
OptionNames == RecognizedOptions \cup {"RISK_PERCENT"}

OptionValues == {0, 1, 100, 101}

\* **kwargs: keyword names are distinct and keep the order of the call
KeywordArguments ==
    {kw \in UNION {[1..n -> OptionNames \X OptionValues] : n \in 1..MaxKwargs} :
        \A i, j \in DOMAIN kw : i # j => kw[i][1] # kw[j][1]}

\* hasattr(self, key)
hasattr(key) == key \in RecognizedOptions

\* setattr(self, key, value)
setattr(cfg, key, value) == [cfg EXCEPT ![key] = value]

\* the loop of update_config: a name that is not an attribute is skipped; the
\* first name that is one is assigned without looking at the value, and the
\* logger.info that follows raises NameError (the module defines no logger),
\* which ends the call.
RECURSIVE update_config(_, _)
update_config(cfg, kwargs) ==
    IF kwargs = <<>>
    THEN cfg
    ELSE IF hasattr(kwargs[1][1])
         THEN setattr(cfg, kwargs[1][1], kwargs[1][2])
         ELSE update_config(cfg, Tail(kwargs))

UpdateConfig ==
    /\ \E kwargs \in KeywordArguments : config' = update_config(config, kwargs)
    /\ UNCHANGED <<risk, symbol_trade_count, executed_trades, last_trade_day,
                   today, orders_placed, host_updates, reset_calls, reset_mark,
                   reset_last, lock, pc, loc, outcome, calls, pre, io>>

NextConfig == UpdateConfig

SpecConfig == Init /\ [][NextConfig]_vars

-----------------------------------------------------------------------------
(* Properties *)

Called(p, name) == \E i \in DOMAIN calls[p] : calls[p][i] = name

Position(p, name) == CHOOSE i \in DOMAIN calls[p] : calls[p][i] = name

ExecutionClientCalled(p) ==
    \/ Called(p, "get_account_info")
    \/ Called(p, "set_leverage")
    \/ Called(p, "create_order")

EntryConfidence(p) == loc[p].technical_data.entry.confidence

CountersKept(p) ==
    /\ risk.daily_trades = pre[p].risk.daily_trades
    /\ risk.daily_pnl = pre[p].risk.daily_pnl
    /\ risk.consecutive_losses = pre[p].risk.consecutive_losses
    /\ symbol_trade_count = pre[p].symbol_trade_count

LogKept(p) == executed_trades = pre[p].executed_trades

LossCapHit(r, cfg) ==
    r.daily_pnl * 100 <= -(cfg.MAX_DAILY_LOSS_PERCENT * r.account_balance)

\* C1: a cycle begun with the daily trade count at or above DAILY_TRADE_LIMIT
\* returns HOLD with the ledger's limit-reached reason and confidence 0, and
\* calls nothing but can_trade_today: no analysis engine, trend classifier,
\* quality gate, sentiment guard or execution-client operation.
C1_LimitReachedHolds ==
    \A p \in Procs :
        (pc[p] # "idle" /\ pre[p].risk.daily_trades >= config.DAILY_TRADE_LIMIT)
        => /\ pc[p] = "done"
           /\ outcome[p].action = "HOLD"
           /\ outcome[p].reason = LimitReason
           /\ outcome[p].confidence = 0
           /\ calls[p] = <<"can_trade_today">>
           /\ io[p] = NoIO

C1_Witness ==
    \E p \in Procs :
        /\ pc[p] = "done"
        /\ pre[p].risk.daily_trades = 3
        /\ config.DAILY_TRADE_LIMIT = 3
        /\ outcome[p] = Hold(LimitReason, 0)

\* C2: with cycles one at a time, no date rollover and DAILY_TRADE_LIMIT
\* unchanged, the ledger's daily trade count never exceeds DAILY_TRADE_LIMIT,
\* and neither does the number of create_order calls that returned a handle.
C2_TradeCountCap ==
    /\ risk.daily_trades <= config.DAILY_TRADE_LIMIT
    /\ orders_placed <= config.DAILY_TRADE_LIMIT

C2_Witness ==
    /\ risk.daily_trades = config.DAILY_TRADE_LIMIT
    /\ orders_placed = config.DAILY_TRADE_LIMIT
    /\ \E p \in Procs : pc[p] = "done" /\ outcome[p].action = "EXECUTED"

\* C3: a cycle begun with today's realized PnL at or below
\* -(MAX_DAILY_LOSS_PERCENT/100) x the cached balance is refused by
\* can_trade_today and returns HOLD with confidence 0 without calling any
\* collaborator; it creates no order.
C3_DailyLossCapHolds ==
    \A p \in Procs :
        (pc[p] # "idle" /\ LossCapHit(pre[p].risk, config))
        => /\ ~can_trade_today(pre[p].risk, config)[1]
           /\ pc[p] = "done"
           /\ outcome[p].action = "HOLD"
           /\ outcome[p].confidence = 0
           /\ calls[p] = <<"can_trade_today">>
           /\ io[p] = NoIO
           /\ LogKept(p)

C3_Witness ==
    \E p \in Procs :
        /\ pc[p] = "done"
        /\ pre[p].risk.account_balance > 0
        /\ pre[p].risk.daily_pnl < 0
        /\ pre[p].risk.daily_trades < config.DAILY_TRADE_LIMIT
        /\ LossCapHit(pre[p].risk, config)
        /\ outcome[p] = Hold(LossReason, 0)

\* C4: when should_enter_trade answers (false, reason) the cycle returns HOLD
\* with exactly that reason and the entry signal's confidence, and neither the
\* sentiment guard, get_account_info, set_leverage, create_order nor
\* record_trade_execution is invoked in it.
C4_QualityRejectionHolds ==
    \A p \in Procs :
        (io[p].should_enter_trade # <<>> /\ ~io[p].should_enter_trade[1])
        => /\ pc[p] = "done"
           /\ outcome[p].action = "HOLD"
           /\ outcome[p].reason = io[p].should_enter_trade[2]
           /\ outcome[p].confidence = EntryConfidence(p)
           /\ ~Called(p, "should_avoid_trade")
           /\ ~ExecutionClientCalled(p)
           /\ ~Called(p, "record_trade_execution")

C4_Witness ==
    \E p \in Procs :
        /\ pc[p] = "done"
        /\ io[p].should_enter_trade = <<FALSE, <<"QUALITY", "setup not clean">>>>
        /\ outcome[p] = Hold(<<"QUALITY", "setup not clean">>, 90)

\* C5: should_avoid_trade is invoked only after the quality gate admitted in
\* the same cycle; when it answers (true, reason) the cycle returns HOLD with
\* that reason and the entry signal's confidence, calls no execution-client
\* operation, appends nothing to the trade log and leaves the ledger alone.
C5_SentimentVetoHolds ==
    \A p \in Procs :
        /\ Called(p, "should_avoid_trade")
           => /\ Called(p, "should_enter_trade")
              /\ Position(p, "should_enter_trade") < Position(p, "should_avoid_trade")
              /\ io[p].should_enter_trade # <<>>
              /\ io[p].should_enter_trade[1]
        /\ (io[p].should_avoid_trade # <<>> /\ io[p].should_avoid_trade[1])
           => /\ pc[p] = "done"
              /\ outcome[p].action = "HOLD"
              /\ outcome[p].reason = io[p].should_avoid_trade[2]
              /\ outcome[p].confidence = EntryConfidence(p)
              /\ ~ExecutionClientCalled(p)
              /\ LogKept(p)
              /\ risk = pre[p].risk
              /\ symbol_trade_count = pre[p].symbol_trade_count

C5_Witness ==
    \E p \in Procs :
        /\ pc[p] = "done"
        /\ io[p].should_enter_trade = <<TRUE, <<"", "">>>>
        /\ io[p].should_avoid_trade = <<TRUE, SocialReason>>
        /\ outcome[p] = Hold(SocialReason, 90)
        /\ Len(executed_trades) > 0

\* C6: every order passed to create_order has, for a BUY entry,
\* stop_loss = price - 1.5 ATR and take_profit = price + 3 ATR, so that
\* take_profit - price = 2 (price - stop_loss); for any other entry
\* stop_loss = price + 1.5 ATR and take_profit = price - 3 ATR, so that
\* price - take_profit = 2 (stop_loss - price).  Price 100 and ATR 2 on a
\* BUY give 97 and 106.  The trade record stores the same two values.
C6_StopTargetRule ==
    \A p \in Procs :
        Called(p, "create_order")
        => LET o == io[p].create_order
               action == loc[p].technical_data.entry.action
           IN  /\ o.price = loc[p].technical_data.execution.current_price
               /\ o.atr = loc[p].technical_data.risk.atr
               /\ IF action = "BUY"
                  THEN /\ 10 * o.stop_loss = 10 * o.price - 15 * o.atr
                       /\ 10 * o.take_profit = 10 * o.price + 30 * o.atr
                       /\ o.take_profit - o.price = 2 * (o.price - o.stop_loss)
                  ELSE /\ 10 * o.stop_loss = 10 * o.price + 15 * o.atr
                       /\ 10 * o.take_profit = 10 * o.price - 30 * o.atr
                       /\ o.price - o.take_profit = 2 * (o.stop_loss - o.price)
               /\ (action = "BUY" /\ o.price = 10000 /\ o.atr = 200)
                  => (o.stop_loss = 9700 /\ o.take_profit = 10600)
               /\ io[p].order = "handle"
                  => /\ Len(executed_trades) > 0
                     /\ executed_trades[Len(executed_trades)].stop_loss = o.stop_loss
                     /\ executed_trades[Len(executed_trades)].take_profit = o.take_profit
                     /\ outcome[p].trade.trade = executed_trades[Len(executed_trades)]

C6_Witness ==
    \E p, q \in Procs :
        /\ io[p].order = "handle"
        /\ loc[p].technical_data.entry.action = "BUY"
        /\ io[p].create_order.price = 10000
        /\ io[p].create_order.atr = 200
        /\ executed_trades[Len(executed_trades)].stop_loss = 9700
        /\ executed_trades[Len(executed_trades)].take_profit = 10600
        /\ Len(executed_trades) > 1
        /\ executed_trades[1].side = "sell"
        /\ executed_trades[1].stop_loss = 10300
        /\ executed_trades[1].take_profit = 9400

SizedBelowMinimum(p) ==
    /\ io[p].calculate_position_size # <<>>
    /\ io[p].calculate_position_size[1] < MIN_POSITION_SIZE_USDT

\* C7: whenever calculate_position_size returns a notional below 10 the
\* cycle ends in HOLD with the position-too-small reason, create_order is not
\* called, nothing is appended to the trade log and the ledger's trade count
\* and PnL are unchanged; and create_order is only called with notional >= 10.
C7_UndersizedPositionHolds ==
    \A p \in Procs :
        /\ (pc[p] = "done" /\ SizedBelowMinimum(p))
           => /\ outcome[p].action = "HOLD"
              /\ outcome[p].reason = TooSmallReason(io[p].calculate_position_size[1])
              /\ ~Called(p, "create_order")
              /\ LogKept(p)
              /\ CountersKept(p)
        /\ Called(p, "create_order")
           => io[p].create_order.size_usdt >= MIN_POSITION_SIZE_USDT

\* C8: a set_leverage(symbol, CONFIG.LEVERAGE) call that returns is followed
\* in the same cycle by a create_order call for that symbol: no cycle that
\* set the leverage ends without submitting an order.
C8_LeverageOnlyBeforeOrder ==
    \A p \in Procs :
        (pc[p] = "done" /\ Called(p, "set_leverage") /\ io[p].raised # "set_leverage")
        => /\ io[p].set_leverage[2] = config.LEVERAGE
           /\ Called(p, "create_order")
           /\ io[p].create_order.symbol = io[p].set_leverage[1]

PipelineCollaborators == {"get_multi_timeframe_analysis", "analyze_primary_trend"}

ExecutionClientOperations == {"get_account_info", "set_leverage", "create_order"}

\* C9 as stated: whenever the analysis engine, the trend classifier or an
\* execution-client operation raises, the cycle returns HOLD with a
\* descriptive reason and confidence 0.
C9_FailuresHoldWithZeroConfidence ==
    \A p \in Procs :
        io[p].raised \in PipelineCollaborators \cup ExecutionClientOperations
        => /\ pc[p] = "done"
           /\ outcome[p].action = "HOLD"
           /\ outcome[p].reason[2] # ""
           /\ outcome[p].confidence = 0

\* C9 as amended: no collaborator failure leaves the cycle other than as a
\* HOLD with a descriptive reason.  When the analysis engine or the trend
\* classifier raises, the reason is the pipeline-error one and the confidence
\* is 0; when get_account_info, set_leverage or create_order raises, the
\* reason is the execution-error one and the confidence is the entry
\* signal's confidence.
C9_FailuresBecomeHold ==
    \A p \in Procs :
        /\ io[p].raised \in PipelineCollaborators
           => /\ pc[p] = "done"
              /\ outcome[p].action = "HOLD"
              /\ outcome[p].reason[1] = "PIPELINE_ERROR"
              /\ outcome[p].reason[2] # ""
              /\ outcome[p].confidence = 0
        /\ io[p].raised \in ExecutionClientOperations
           => /\ pc[p] = "done"
              /\ outcome[p].action = "HOLD"
              /\ outcome[p].reason[1] = "EXECUTION_ERROR"
              /\ outcome[p].reason[2] # ""
              /\ outcome[p].confidence = EntryConfidence(p)

C9_Witness ==
    \E p, q \in Procs :
        /\ io[p].raised = "create_order"
        /\ outcome[p].action = "HOLD"
        /\ outcome[p].confidence = 90
        /\ EntryConfidence(p) = 90

\* C10: a cycle whose outcome is HOLD leaves the ledger's daily trade count,
\* daily PnL and consecutive-loss count, the per-symbol counters and the
\* executed-trades log as they were before the cycle, and
\* record_trade_execution is called only in a cycle whose execute step
\* reported executed=True.
C10_HoldLeavesBookkeeping ==
    \A p \in Procs :
        pc[p] = "done"
        => /\ outcome[p].action = "HOLD" => (CountersKept(p) /\ LogKept(p))
           /\ Called(p, "record_trade_execution")
              => /\ io[p].order = "handle"
                 /\ outcome[p].action = "EXECUTED"
                 /\ outcome[p].trade.executed

C10_Witness ==
    \E p \in Procs :
        /\ pc[p] = "done"
        /\ outcome[p] = Hold(OrderErrorReason, 90)
        /\ io[p].order = "none"
        /\ Len(executed_trades) = 2
        /\ risk.daily_trades = 2

\* C11 as stated: when the date has advanced since the last reset, the first
\* process_trade_decision cycle of the new day resets the daily counters
\* before its risk check, so that last_trade_day is the cycle's date once the
\* cycle runs and the previous day's limit does not hold the cycle back.
C11_RolloverAtCycleStart ==
    \A p \in Procs :
        (pc[p] # "idle" /\ pre[p].today # pre[p].last_trade_day)
        => /\ last_trade_day >= pre[p].today
           /\ ~(pc[p] = "done" /\ outcome[p] = Hold(LimitReason, 0))

RECURSIVE PnlBooked(_)
\* the estimates record_trade_execution booked for these trades
PnlBooked(trades) ==
    IF trades = <<>> THEN 0
    ELSE EstimatedPnl(Head(trades).size_usdt) + PnlBooked(Tail(trades))

TradesSinceReset == SubSeq(executed_trades, reset_mark + 1, Len(executed_trades))

CountFor(trades, symbol) ==
    Cardinality({i \in DOMAIN trades : trades[i].symbol = symbol})

\* C12: reset_daily_stats resets once per date: after the first call since
\* the date changed, last_trade_day is today and the counters are those of
\* the trades recorded since that call, however often it is called again:
\* a call on the date of last_trade_day changes nothing, a call on another
\* date zeroes the ledger's daily count and PnL and the per-symbol counters.
C12_ResetOncePerDay ==
    reset_calls >= 1
    => /\ last_trade_day = today
       /\ reset_mark <= Len(executed_trades)
       /\ risk.daily_trades = Len(TradesSinceReset)
       /\ risk.daily_pnl = PnlBooked(TradesSinceReset)
       /\ \A s \in Symbols : symbol_trade_count[s] = CountFor(TradesSinceReset, s)

C12_Witness ==
    /\ reset_calls = 2
    /\ today = 2
    /\ reset_mark = 1
    /\ reset_last = 2
    /\ Len(executed_trades) = 2
    /\ risk.daily_trades = 1
    /\ executed_trades[1].timestamp = 1
    /\ executed_trades[2].timestamp = 2

\* number of times the cycle of p has invoked the collaborator operation `name`
Invocations(p, name) == Cardinality({i \in DOMAIN calls[p] : calls[p][i] = name})

\* the cycle of p got past the risk, quality and sentiment stages
Admitted(p) == io[p].should_avoid_trade # <<>> /\ ~io[p].should_avoid_trade[1]

\* C13 as stated: every decision cycle, the ones ending in HOLD at the risk,
\* quality or sentiment stage included, asks the execution client for the
\* account balance exactly once.
C13_RefreshedEveryCycle ==
    \A p \in Procs :
        pc[p] = "done" => Invocations(p, "get_account_info") = 1

\* C13 amended: a cycle asks for the account balance at most once.  It asks
\* only after the risk, quality and sentiment stages have admitted the trade;
\* a cycle that ends in HOLD at one of these stages, or fails before them,
\* never asks and leaves the cached balance as it was.  When the client
\* answers, the cached balance is overwritten with the answer before the
\* notional is computed, so the notional is a size computed from the answer
\* and the cached balance is still the answer while the cycle runs; when the
\* client raises, the cached balance is not overwritten.
C13_RefreshedOnlyWhenExecuting ==
    \A p \in Procs :
        /\ Invocations(p, "get_account_info") <= 1
        /\ Called(p, "get_account_info") => Admitted(p)
        /\ (pc[p] \in {"leverage", "order"} \/ (pc[p] = "done" /\ Admitted(p)))
           => Invocations(p, "get_account_info") = 1
        /\ (pc[p] # "idle" /\ ~Called(p, "get_account_info"))
           => risk.account_balance = pre[p].risk.account_balance
        /\ io[p].raised = "get_account_info"
           => /\ io[p].get_account_info = <<>>
              /\ io[p].calculate_position_size = <<>>
              /\ risk = pre[p].risk
        /\ io[p].calculate_position_size # <<>>
           => /\ io[p].get_account_info # <<>>
              /\ risk.account_balance = io[p].get_account_info[1]
              /\ io[p].calculate_position_size[1] \in
                    calculate_position_size(
                        set_account_balance(pre[p].risk, io[p].get_account_info[1]),
                        config, EntryConfidence(p), 100)

\* a cycle that found the cached balance 0, was told 40 USDT and sized from it
C13_Witness ==
    \E p \in Procs :
        /\ pc[p] = "done"
        /\ pre[p].risk.account_balance = 0
        /\ io[p].get_account_info = <<4000>>
        /\ io[p].calculate_position_size = <<1000>>
        /\ risk.account_balance = 4000
        /\ outcome[p].action = "EXECUTED"

\* C14: after any sequence of update_config calls POSITION_SIZE_PERCENT and
\* MAX_DAILY_LOSS_PERCENT lie in (0,100] and LEVERAGE is at least 1.
C14_ConfigInvariant ==
    /\ config.POSITION_SIZE_PERCENT > 0
    /\ config.POSITION_SIZE_PERCENT <= 100
    /\ config.MAX_DAILY_LOSS_PERCENT > 0
    /\ config.MAX_DAILY_LOSS_PERCENT <= 100
    /\ config.LEVERAGE >= 1

\* one step appends exactly one entry to the log, in the cycle of p, whose
\* create_order has just returned an order handle
AppendsOne(p) ==
    /\ pc[p] = "order"
    /\ io'[p].order = "handle"
    /\ Len(executed_trades') = Len(executed_trades) + 1
    /\ SubSeq(executed_trades', 1, Len(executed_trades)) = executed_trades

\* C15: the executed-trades log is append-only.  No step of a cycle, of
\* reset_daily_stats or of the calendar changes, removes or reorders an
\* existing entry: a step either leaves the log as it is or appends one entry
\* at the end, and it appends only when create_order has returned an order
\* handle in that step's cycle.  A cycle appends at most one entry, and a
\* cycle whose create_order did not return a handle appends none.
C15_AppendOnlyLog ==
    /\ [][\/ executed_trades' = executed_trades
          \/ \E p \in Procs : AppendsOne(p)]_vars
    /\ [](\A p \in Procs :
            pc[p] # "idle"
            => /\ Len(executed_trades) <= Len(pre[p].executed_trades) + 1
               /\ SubSeq(executed_trades, 1, Len(pre[p].executed_trades))
                      = pre[p].executed_trades
               /\ executed_trades # pre[p].executed_trades
                  => io[p].order = "handle")

\* the entry of day 1 is still first after the rollover and a trade on day 2
C15_Witness ==
    \E p \in Procs :
        /\ pc[p] = "done"
        /\ io[p].order = "handle"
        /\ today = 2
        /\ last_trade_day = 2
        /\ Len(pre[p].executed_trades) = 1
        /\ pre[p].executed_trades[1].timestamp = 1
        /\ Len(executed_trades) = 2
        /\ executed_trades[1] = pre[p].executed_trades[1]
        /\ executed_trades[2].timestamp = 2

\* set_leverage has returned in the cycle of p
LeverageSet(p) == io[p].set_leverage # <<>> /\ io[p].raised # "set_leverage"

\* C16: a zero ATR is not guarded.  In a cycle that all gates admitted, whose
\* notional is at least 10 USDT and whose ATR is 0, the cycle goes on to
\* create_order instead of ending in HOLD, and the order carries
\* stop_loss = take_profit = price; if the client accepts it the outcome is
\* EXECUTED.  With ATR > 0 a BUY order has stop_loss < price < take_profit and
\* any other order has take_profit < price < stop_loss.
C16_ZeroATRNotGuarded ==
    \A p \in Procs :
        LET o == io[p].create_order
            atr == loc[p].technical_data.risk.atr
            action == loc[p].technical_data.entry.action
        IN  /\ (LeverageSet(p) /\ ~TooSmall(loc[p].position_size_usdt) /\ atr = 0)
               => /\ pc[p] \in {"order", "done"}
                  /\ pc[p] = "done"
                     => /\ Called(p, "create_order")
                        /\ io[p].order = "handle" => outcome[p].action = "EXECUTED"
            /\ (Called(p, "create_order") /\ atr = 0)
               => /\ o.atr = 0
                  /\ o.size_usdt >= MIN_POSITION_SIZE_USDT
                  /\ o.stop_loss = o.price
                  /\ o.take_profit = o.price
            /\ (Called(p, "create_order") /\ atr > 0)
               => IF action = "BUY"
                  THEN o.stop_loss < o.price /\ o.price < o.take_profit
                  ELSE o.take_profit < o.price /\ o.price < o.stop_loss

\* an accepted order whose stop and target both sit on the entry price
C16_Witness ==
    \E p \in Procs :
        /\ pc[p] = "done"
        /\ loc[p].technical_data.risk.atr = 0
        /\ io[p].order = "handle"
        /\ io[p].create_order.stop_loss = 10000
        /\ io[p].create_order.take_profit = 10000
        /\ io[p].create_order.size_usdt = 1000
        /\ outcome[p].action = "EXECUTED"
        /\ executed_trades[Len(executed_trades)].stop_loss
              = executed_trades[Len(executed_trades)].entry_price

RECURSIVE SumOver(_, _)
\* sum of the counters f[s] over the symbols s in S
SumOver(f, S) ==
    IF S = {}
    THEN 0
    ELSE LET s == CHOOSE x \in S : TRUE
         IN  f[s] + SumOver(f, S \ {s})

\* C18: in every state reached by cycles and reset_daily_stats calls, the
\* per-symbol trade counters add up to the ledger's daily trade count, and
\* that count is never more than the number of entries in the trade log.
C18_SymbolCountsMatchLedger ==
    /\ SumOver(symbol_trade_count, Symbols) = risk.daily_trades
    /\ risk.daily_trades <= Len(executed_trades)

\* after a rollover: one trade counted for the new day, two in the log
C18_Witness ==
    /\ today = 2
    /\ last_trade_day = 2
    /\ Len(executed_trades) = 2
    /\ risk.daily_trades = 1
    /\ \E s \in Symbols :
          /\ symbol_trade_count[s] = 1
          /\ executed_trades[1].symbol = s
          /\ executed_trades[2].symbol = s

\* C19: the result the pipeline books on the ledger is always the estimate of
\* 2% of a notional of at least 10 USDT, hence positive.  So in every state
\* reached through cycles the daily PnL is >= 0, no step of a day lowers it,
\* the consecutive-loss counter stays 0, and a cycle that began with a
\* positive cached balance is never held back by the daily-loss branch of
\* can_trade_today.
C19_OnlyPositiveEstimatesBooked ==
    /\ [](/\ risk.daily_pnl >= 0
          /\ risk.consecutive_losses = 0
          /\ \A p \in Procs :
                /\ Called(p, "record_trade_execution")
                   => LET trade_result == outcome[p].trade
                      IN  /\ trade_result.position_size_usdt >= MIN_POSITION_SIZE_USDT
                          /\ trade_result.pnl
                                = (trade_result.position_size_usdt * 2) \div 100
                          /\ trade_result.pnl > 0
                          /\ risk.daily_pnl = pre[p].risk.daily_pnl + trade_result.pnl
                /\ (pc[p] = "done" /\ outcome[p].reason = LossReason)
                   => pre[p].risk.account_balance <= 0
                /\ (pc[p] # "idle" /\ pre[p].risk.account_balance > 0)
                   => ~LossCapHit(pre[p].risk, config))
    /\ [][risk.daily_pnl' >= risk.daily_pnl]_vars

\* three estimates booked on one day, and the next cycle held back by the
\* trade limit, not by the loss cap
C19_Witness ==
    \E p \in Procs :
        /\ pc[p] = "done"
        /\ outcome[p] = Hold(LimitReason, 0)
        /\ risk.account_balance > 0
        /\ risk.daily_trades = 3
        /\ risk.daily_pnl = 60
        /\ risk.consecutive_losses = 0

\* C20: the pipeline has no concurrency control of its own.  When every
\* cycle runs under one mutual-exclusion boundary, no more than
\* DAILY_TRADE_LIMIT orders are placed in a day and at most one cycle is under
\* way.  Without the boundary the limit is not kept (two cycles
\* for different symbols both pass the risk check at DAILY_TRADE_LIMIT - 1 and
\* both place an order); the excess is at most one order per further caller.
C20_LimitKeptOnlyUnderLock ==
    /\ lock => /\ orders_placed <= config.DAILY_TRADE_LIMIT
               /\ risk.daily_trades <= config.DAILY_TRADE_LIMIT
               /\ \A p, q \in Procs :
                     (pc[p] \notin {"idle", "done"} /\ pc[q] \notin {"idle", "done"})
                     => p = q
    /\ ~lock => orders_placed <= config.DAILY_TRADE_LIMIT + Cardinality(Procs) - 1

\* without the lock: both cycles passed the risk check at the limit minus one
\* and both placed an order
C20_Witness ==
    \E p, q \in Procs :
        /\ ~lock
        /\ p # q
        /\ loc[p].symbol # loc[q].symbol
        /\ pre[p].risk.daily_trades = config.DAILY_TRADE_LIMIT - 1
        /\ pre[q].risk.daily_trades = config.DAILY_TRADE_LIMIT - 1
        /\ io[p].order = "handle"
        /\ io[q].order = "handle"
        /\ outcome[p].action = "EXECUTED"
        /\ outcome[q].action = "EXECUTED"
        /\ orders_placed > config.DAILY_TRADE_LIMIT
        /\ risk.daily_trades > config.DAILY_TRADE_LIMIT

=============================================================================
